---- MODULE Spec2Model ----
(***************************************************************************)
(* Validator API: POST /validators stores a ValidatorRequest and spawns    *)
(* one asyncio task that generates the keys one by one; GET                *)
(* /validators/{id} polls the stored status.                               *)
(*                                                                         *)
(* Every `await` of the source is one step of the model, since the event   *)
(* loop may run any other coroutine there.  Code between two awaits runs   *)
(* atomically.  An awaited store call (commit, refresh, execute) or the    *)
(* key generator either succeeds or raises; a commit that raises writes    *)
(* nothing.  Closing a session does not raise.                             *)
(***************************************************************************)
EXTENDS Integers, Sequences, FiniteSets, TLC

\* ---------------------------------------------------------------- bounds
MaxRequests == 2
MaxNumValidators == 2
\* keys requested over all submissions
MaxTotalKeys == 3

\* uuid4 values the handlers can draw, in the order they are drawn
RequestIds == 1..MaxRequests
\* accepted values of CreateValidatorRequest.num_validators (gt=0)
NumValidators == 1..MaxNumValidators
\* the fee_recipient of a validated body; the handler and the task only copy
\* it, so a label stands for the address
FeeRecipients == {"0xaa"}
\* the polling client, whose get_validator_status handler only reads the store
Pollers == {"client"}
\* the tasks the event loop can hold
TaskIds == 1..MaxRequests

NoKey == <<>>
Terminal == {"successful", "failed"}

\* -------------------------------------------------------------- models.py
\* number of hex characters the pattern asks for
HexLength == 40
\* [a-fA-F0-9]
HexDigits ==
    {"0", "1", "2", "3", "4", "5", "6", "7", "8", "9",
     "a", "b", "c", "d", "e", "f", "A", "B", "C", "D", "E", "F"}

Repeat(c, n) == [i \in 1..n |-> c]

\* a string is the sequence of its characters
Address == <<"0", "x">> \o Repeat("a", HexLength)

\* fee_recipient values a client posts: an address, the address with digits
\* and capitals, the address followed by a newline, one with a character
\* short, one with a character that is no hex digit, one without "0x"
FeeInputs ==
    {Address,
     <<"0", "x">> \o Repeat("9", HexLength - 1) \o <<"F">>,
     Address \o <<"\n">>,
     <<"0", "x">> \o Repeat("a", HexLength - 1),
     <<"0", "x">> \o Repeat("a", HexLength - 1) \o <<"g">>,
     Repeat("a", HexLength + 2)}

\* num_validators values a client posts
NumInputs == {-1, 0} \cup NumValidators

\* re.match(r"^0x[a-fA-F0-9]{40}$", v): "^" is the start of the string, and
\* "$" matches at the end of the string and also just before a newline that
\* is its last character
validate_ethereum_address(v) ==
    /\ Len(v) >= HexLength + 2
    /\ v[1] = "0" /\ v[2] = "x"
    /\ \A i \in 3..(HexLength + 2) : v[i] \in HexDigits
    /\ \/ Len(v) = HexLength + 2
       \/ Len(v) = HexLength + 3 /\ v[HexLength + 3] = "\n"

\* the fields of a posted body that fail validation: Field(gt=0) and the
\* field_validator of fee_recipient
InvalidFields(num, fee) ==
    {f \in {"num_validators"} : ~(num > 0)}
       \cup {f \in {"fee_recipient"} : ~validate_ethereum_address(fee)}

VARIABLES
    requests,   \* table validator_requests: request_id -> row
    keys,       \* table validator_keys: request_id -> its rows, in key_id order
    nextUuid,   \* number of uuid4 values drawn so far
    create,     \* create_validator_request handlers, by the request_id they drew
    tasks,      \* asyncio tasks made by spawn_validator_task, in spawn order
    poll,       \* get_validator_status handlers
    rejected    \* fields named by the last 422 a POST /validators got

vars == <<requests, keys, nextUuid, create, tasks, poll, rejected>>

\* ------------------------------------------------------------ database.py
ValidatorRequest(num, fee, st) ==
    [num_validators |-> num, fee_recipient |-> fee, status |-> st]

\* variant: every key row is written under the id of the first request
ValidatorKey_first_request(rid, k, fee) ==
    [request_id |-> 1, key |-> k, fee_recipient |-> fee]

ValidatorKey(rid, k, fee) ==
    [request_id |-> rid, key |-> k, fee_recipient |-> fee]

\* variant: the new row is put before the rows of its request
InsertKey_prepend(row) ==
    [keys EXCEPT ![row.request_id] = <<row>> \o @]

\* session.add(row); commit: the row gets the next key_id.  No statement of
\* the program reads rows of two requests together, so the table is kept as
\* the rows of each request_id, in key_id order.
InsertKey(row) ==
    [keys EXCEPT ![row.request_id] = Append(@, row)]

\* select(ValidatorKey.key).where(ValidatorKey.request_id == rid)
SelectKeys(rid) ==
    [j \in DOMAIN keys[rid] |-> keys[rid][j].key]

KeyCount(rid) == Len(SelectKeys(rid))

\* --------------------------------------------------------------- models.py
\* a get_validator_status handler that is not running, and the empty
\* ValidatorStatusResponse (keys and message None)
IdlePoll ==
    [pc |-> "idle", request_id |-> 0, code |-> 0, status |-> "none",
     has_keys |-> FALSE, keys |-> <<>>, message |-> "none"]

\* a handler that has returned its response is gone at the next step
PollsLeft ==
    [p \in Pollers |-> IF poll[p].pc = "done" THEN IdlePoll ELSE poll[p]]

\* --------------------------------------------------------------- tasks.py
\* the coroutine process_validator_creation(request_id, num_validators,
\* fee_recipient) as create_task leaves it: not yet run, about to enter the loop
NewTask(rid, num, fee) ==
    [request_id |-> rid, num_validators |-> num, fee_recipient |-> fee,
     pc |-> IF num > 0 THEN "gen" ELSE "upd_lookup",
     i |-> 0, key |-> NoKey,
     status |-> IF num > 0 THEN "none" ELSE "successful",
     fault |-> FALSE, dropped |-> "no"]

\* variant: the task is created twice
spawn_validator_task_twice(rid, num, fee) ==
    tasks \o <<NewTask(rid, num, fee), NewTask(rid, num, fee)>>

spawn_validator_task(rid, num, fee) ==
    Append(tasks, NewTask(rid, num, fee))

TasksOf(rid) == {t \in DOMAIN tasks : tasks[t].request_id = rid}

\* the call update_request_status(request_id, st) made by task t
CallUpdate(t, st, isFault) ==
    [tasks[t] EXCEPT !.pc = "upd_lookup", !.status = st, !.key = NoKey,
                     !.fault = @ \/ isFault]

\* secrets.token_hex(16): 128 random bits, a value no other call returns;
\* it is named after the call that drew it (task t, item i)
TokenHex(t, i) == <<t, i>>

\* variant: an item whose generation raised is skipped and the loop goes on
GenerateKey_skips_item(t) ==
    /\ t \in DOMAIN tasks
    /\ tasks[t].pc = "gen"
    /\ \/ tasks' = [tasks EXCEPT ![t].pc = "store",
                                 ![t].key = TokenHex(t, tasks[t].i)]
       \/ tasks' = [tasks EXCEPT ![t] =
                       IF tasks[t].i + 1 < tasks[t].num_validators
                       THEN [tasks[t] EXCEPT !.i = @ + 1, !.fault = TRUE]
                       ELSE CallUpdate(t, "failed", TRUE)]
    /\ poll' = PollsLeft
    /\ UNCHANGED <<requests, keys, nextUuid, create, rejected>>

\* key = await MockKeyManager.generate_key()
GenerateKey(t) ==
    /\ t \in DOMAIN tasks
    /\ tasks[t].pc = "gen"
    /\ \/ tasks' = [tasks EXCEPT ![t].pc = "store",
                                 ![t].key = TokenHex(t, tasks[t].i)]
       \/ tasks' = [tasks EXCEPT ![t] = CallUpdate(t, "failed", TRUE)]
    /\ poll' = PollsLeft
    /\ UNCHANGED <<requests, keys, nextUuid, create, rejected>>

\* variant: the loop ends one item early
AfterStore_stops_early(t) ==
    IF tasks[t].i + 1 < tasks[t].num_validators - 1
    THEN [tasks[t] EXCEPT !.pc = "gen", !.i = @ + 1, !.key = NoKey]
    ELSE [CallUpdate(t, "successful", FALSE) EXCEPT !.i = @ + 1]

\* variant: the loop runs one item more
AfterStore_one_more(t) ==
    IF tasks[t].i + 1 < tasks[t].num_validators + 1
    THEN [tasks[t] EXCEPT !.pc = "gen", !.i = @ + 1, !.key = NoKey]
    ELSE [CallUpdate(t, "successful", FALSE) EXCEPT !.i = @ + 1]

\* variant: the task ends after the last item without the status update
AfterStore_no_final_update(t) ==
    IF tasks[t].i + 1 < tasks[t].num_validators
    THEN [tasks[t] EXCEPT !.pc = "gen", !.i = @ + 1, !.key = NoKey]
    ELSE [tasks[t] EXCEPT !.pc = "done", !.i = @ + 1, !.key = NoKey]

\* the loop position after the commit of item i succeeded
AfterStore(t) ==
    IF tasks[t].i + 1 < tasks[t].num_validators
    THEN [tasks[t] EXCEPT !.pc = "gen", !.i = @ + 1, !.key = NoKey]
    ELSE [CallUpdate(t, "successful", FALSE) EXCEPT !.i = @ + 1]

\* variant: the failed commit marks the Request failed and the loop goes on
StoreKey_no_return(t) ==
    /\ t \in DOMAIN tasks
    /\ tasks[t].pc = "store"
    /\ \/ /\ keys' = InsertKey(ValidatorKey(tasks[t].request_id, tasks[t].key,
                                            tasks[t].fee_recipient))
          /\ tasks' = [tasks EXCEPT ![t] = AfterStore(t)]
          /\ UNCHANGED requests
       \/ /\ tasks[t].request_id \in DOMAIN requests
          /\ requests' = [requests EXCEPT ![tasks[t].request_id].status = "failed"]
          /\ tasks' = [tasks EXCEPT ![t] = [AfterStore(t) EXCEPT !.fault = TRUE]]
          /\ UNCHANGED keys
    /\ poll' = PollsLeft
    /\ UNCHANGED <<nextUuid, create, rejected>>

\* variant: the failed commit deletes the rows of the request
StoreKey_rollback(t) ==
    /\ t \in DOMAIN tasks
    /\ tasks[t].pc = "store"
    /\ \/ /\ keys' = InsertKey(ValidatorKey(tasks[t].request_id, tasks[t].key,
                                            tasks[t].fee_recipient))
          /\ tasks' = [tasks EXCEPT ![t] = AfterStore(t)]
       \/ /\ tasks' = [tasks EXCEPT ![t] = CallUpdate(t, "failed", TRUE)]
          /\ keys' = [keys EXCEPT ![tasks[t].request_id] = <<>>]
    /\ poll' = PollsLeft
    /\ UNCHANGED <<requests, nextUuid, create, rejected>>

\* variant: the failed commit returns without the status update
StoreKey_no_update(t) ==
    /\ t \in DOMAIN tasks
    /\ tasks[t].pc = "store"
    /\ \/ /\ keys' = InsertKey(ValidatorKey(tasks[t].request_id, tasks[t].key,
                                            tasks[t].fee_recipient))
          /\ tasks' = [tasks EXCEPT ![t] = AfterStore(t)]
       \/ /\ tasks' = [tasks EXCEPT ![t].pc = "done", ![t].key = NoKey,
                                    ![t].fault = TRUE]
          /\ UNCHANGED keys
    /\ poll' = PollsLeft
    /\ UNCHANGED <<requests, nextUuid, create, rejected>>

\* session.add(validator_key); await session.commit()
StoreKey(t) ==
    /\ t \in DOMAIN tasks
    /\ tasks[t].pc = "store"
    /\ \/ /\ keys' = InsertKey(ValidatorKey(tasks[t].request_id, tasks[t].key,
                                            tasks[t].fee_recipient))
          /\ tasks' = [tasks EXCEPT ![t] = AfterStore(t)]
       \/ /\ tasks' = [tasks EXCEPT ![t] = CallUpdate(t, "failed", TRUE)]
          /\ UNCHANGED keys
    /\ poll' = PollsLeft
    /\ UNCHANGED <<requests, nextUuid, create, rejected>>

\* variant: a lookup that raises is not caught in update_request_status, so
\* the except of process_validator_creation calls it again with "failed"
UpdateLookup_raises(t) ==
    /\ t \in DOMAIN tasks
    /\ tasks[t].pc = "upd_lookup"
    /\ \/ tasks' = [tasks EXCEPT ![t].pc =
                        IF tasks[t].request_id \in DOMAIN requests
                        THEN "upd_commit" ELSE "done",
                     ![t].dropped =
                        IF tasks[t].request_id \in DOMAIN requests
                        THEN "no" ELSE "absent"]
       \/ tasks' = [tasks EXCEPT ![t] =
                       IF tasks[t].status = "successful" /\ ~tasks[t].fault
                       THEN [CallUpdate(t, "failed", TRUE) EXCEPT
                                !.dropped = "fault"]
                       ELSE [tasks[t] EXCEPT !.pc = "done", !.dropped = "fault",
                                             !.fault = TRUE]]
    /\ poll' = PollsLeft
    /\ UNCHANGED <<requests, keys, nextUuid, create, rejected>>

\* update_request_status: result = await session.execute(select(...))
UpdateLookup(t) ==
    /\ t \in DOMAIN tasks
    /\ tasks[t].pc = "upd_lookup"
    /\ \/ tasks' = [tasks EXCEPT ![t].pc =
                        IF tasks[t].request_id \in DOMAIN requests
                        THEN "upd_commit" ELSE "done",
                     ![t].dropped =
                        IF tasks[t].request_id \in DOMAIN requests
                        THEN "no" ELSE "absent"]
       \/ tasks' = [tasks EXCEPT ![t].pc = "done", ![t].dropped = "fault",
                                 ![t].fault = TRUE]
    /\ poll' = PollsLeft
    /\ UNCHANGED <<requests, keys, nextUuid, create, rejected>>

\* variant: the new status is never committed
UpdateCommit_no_write(t) ==
    /\ t \in DOMAIN tasks
    /\ tasks[t].pc = "upd_commit"
    /\ tasks' = [tasks EXCEPT ![t].pc = "done"]
    /\ poll' = PollsLeft
    /\ UNCHANGED <<requests, keys, nextUuid, create, rejected>>

\* update_request_status: request.status = status; await session.commit()
UpdateCommit(t) ==
    /\ t \in DOMAIN tasks
    /\ tasks[t].pc = "upd_commit"
    /\ \/ /\ requests' = [requests EXCEPT
                             ![tasks[t].request_id].status = tasks[t].status]
          /\ tasks' = [tasks EXCEPT ![t].pc = "done"]
       \/ /\ tasks' = [tasks EXCEPT ![t].pc = "done", ![t].dropped = "fault",
                                    ![t].fault = TRUE]
          /\ UNCHANGED requests
    /\ poll' = PollsLeft
    /\ UNCHANGED <<keys, nextUuid, create, rejected>>

\* ---------------------------------------------------------------- main.py
\* the num_validators of the submissions 1..n
RECURSIVE Requested(_)
Requested(n) ==
    IF n = 0 THEN 0 ELSE create[n].num_validators + Requested(n - 1)

\* request_id = str(uuid.uuid4()); ValidatorRequest(...); db.add(...)
CreateValidatorRequest(num, fee) ==
    /\ nextUuid < MaxRequests
    /\ Requested(nextUuid) + num <= MaxTotalKeys
    /\ nextUuid' = nextUuid + 1
    /\ create' = [r \in DOMAIN create \cup {nextUuid + 1} |->
                    IF r = nextUuid + 1
                    THEN [pc |-> "commit", num_validators |-> num,
                          fee_recipient |-> fee, response |-> 0,
                          ret_keys |-> 0, ret_status |-> "none"]
                    ELSE create[r]]
    /\ poll' = PollsLeft
    /\ UNCHANGED <<requests, keys, tasks, rejected>>

\* POST /validators: the body is validated into CreateValidatorRequest before
\* the handler is called; a body that fails gets 422 and no handler runs
PostValidators(num, fee) ==
    IF InvalidFields(num, fee) = {}
    THEN CreateValidatorRequest(num, fee)
    ELSE /\ rejected' = InvalidFields(num, fee)
         /\ poll' = PollsLeft
         /\ UNCHANGED <<requests, keys, nextUuid, create, tasks>>

\* the row db.commit() inserts
InsertRequest(rid) ==
    [r \in DOMAIN requests \cup {rid} |->
        IF r = rid
        THEN ValidatorRequest(create[rid].num_validators,
                              create[rid].fee_recipient, "started")
        ELSE requests[r]]

\* variant: the task is spawned before the commit is known to have succeeded
CreateCommit_spawns_first(rid) ==
    /\ rid \in DOMAIN create
    /\ create[rid].pc = "commit"
    /\ \/ /\ requests' = InsertRequest(rid)
          /\ create' = [create EXCEPT ![rid].pc = "refresh"]
          /\ UNCHANGED tasks
       \/ /\ create' = [create EXCEPT ![rid].pc = "commit_error",
                                      ![rid].response = 500]
          /\ tasks' = spawn_validator_task(rid, create[rid].num_validators,
                                           create[rid].fee_recipient)
          /\ UNCHANGED requests
    /\ poll' = PollsLeft
    /\ UNCHANGED <<keys, nextUuid, rejected>>

\* await db.commit()
CreateCommit(rid) ==
    /\ rid \in DOMAIN create
    /\ create[rid].pc = "commit"
    /\ \/ /\ requests' = InsertRequest(rid)
          /\ create' = [create EXCEPT ![rid].pc = "refresh"]
       \/ /\ create' = [create EXCEPT ![rid].pc = "commit_error",
                                      ![rid].response = 500]
          /\ UNCHANGED requests
    /\ poll' = PollsLeft
    /\ UNCHANGED <<keys, nextUuid, tasks, rejected>>

\* the handler's return, with what the store holds for rid at that moment
Returned(rid, ks, reqs) ==
    [create[rid] EXCEPT !.pc = "returned", !.response = 202,
        !.ret_keys = Len(ks[rid]),
        !.ret_status = IF rid \in DOMAIN reqs THEN reqs[rid].status ELSE "none"]

\* all the rows process_validator_creation stores when nothing raises
AllKeys(rid, num, fee) ==
    [j \in 1..num |-> ValidatorKey(rid, TokenHex(0, j - 1), fee)]

\* variant: the handler awaits process_validator_creation before it returns
CreateRefresh_awaits_task(rid) ==
    /\ rid \in DOMAIN create
    /\ create[rid].pc = "refresh"
    /\ rid \in DOMAIN requests
    /\ keys' = [keys EXCEPT ![rid] = @ \o AllKeys(rid, create[rid].num_validators,
                                                  create[rid].fee_recipient)]
    /\ requests' = [requests EXCEPT ![rid].status = "successful"]
    /\ tasks' = Append(tasks,
            [NewTask(rid, create[rid].num_validators, create[rid].fee_recipient)
                EXCEPT !.pc = "done", !.i = create[rid].num_validators,
                       !.status = "successful"])
    /\ create' = [create EXCEPT ![rid] = Returned(rid, keys', requests')]
    /\ poll' = PollsLeft
    /\ UNCHANGED <<nextUuid, rejected>>

\* await db.refresh(validator_request); spawn_validator_task(...); return
CreateRefresh(rid) ==
    /\ rid \in DOMAIN create
    /\ create[rid].pc = "refresh"
    /\ \/ /\ tasks' = spawn_validator_task(rid, create[rid].num_validators,
                                           create[rid].fee_recipient)
          /\ create' = [create EXCEPT ![rid] = Returned(rid, keys, requests)]
       \/ /\ create' = [create EXCEPT ![rid].pc = "refresh_error",
                                      ![rid].response = 500]
          /\ UNCHANGED tasks
    /\ poll' = PollsLeft
    /\ UNCHANGED <<requests, keys, nextUuid, rejected>>

\* variant: a started Request is answered with the keys stored so far
StatusLookup_partial_keys(rid) ==
    IF rid \notin DOMAIN requests
    THEN [IdlePoll EXCEPT !.pc = "done", !.request_id = rid, !.code = 404]
    ELSE IF requests[rid].status = "successful"
    THEN [IdlePoll EXCEPT !.pc = "keys", !.request_id = rid,
                          !.status = "successful"]
    ELSE IF requests[rid].status = "failed"
    THEN [IdlePoll EXCEPT !.pc = "done", !.request_id = rid, !.code = 200,
                          !.status = "failed",
                          !.message = "Error processing request"]
    ELSE [IdlePoll EXCEPT !.pc = "done", !.request_id = rid, !.code = 200,
                          !.status = requests[rid].status,
                          !.has_keys = TRUE, !.keys = SelectKeys(rid)]

\* variant: the lookup also sees a Request that is added but not committed
StatusLookup_sees_uncommitted(rid) ==
    IF rid \notin DOMAIN create
    THEN [IdlePoll EXCEPT !.pc = "done", !.request_id = rid, !.code = 404]
    ELSE IF rid \in DOMAIN requests /\ requests[rid].status = "successful"
    THEN [IdlePoll EXCEPT !.pc = "keys", !.request_id = rid,
                          !.status = "successful"]
    ELSE [IdlePoll EXCEPT !.pc = "done", !.request_id = rid, !.code = 200,
                          !.status = "started"]

\* the handler up to its return or its second await:
\* result = await db.execute(select(ValidatorRequest)...), then the branches
\* on request and request.status
StatusLookup(rid) ==
    IF rid \notin DOMAIN requests
    THEN [IdlePoll EXCEPT !.pc = "done", !.request_id = rid, !.code = 404]
    ELSE IF requests[rid].status = "successful"
    THEN [IdlePoll EXCEPT !.pc = "keys", !.request_id = rid,
                          !.status = "successful"]
    ELSE IF requests[rid].status = "failed"
    THEN [IdlePoll EXCEPT !.pc = "done", !.request_id = rid, !.code = 200,
                          !.status = "failed",
                          !.message = "Error processing request"]
    ELSE [IdlePoll EXCEPT !.pc = "done", !.request_id = rid, !.code = 200,
                          !.status = requests[rid].status]

\* GET /validators/{rid}: the handler runs to its return or its second await
GetValidatorStatus(p, rid) ==
    /\ poll[p].pc \in {"idle", "done"}
    /\ \/ poll' = [PollsLeft EXCEPT ![p] = StatusLookup(rid)]
       \/ poll' = [PollsLeft EXCEPT ![p] =
                     [IdlePoll EXCEPT !.pc = "done", !.request_id = rid,
                                      !.code = 500]]
    /\ UNCHANGED <<requests, keys, nextUuid, create, tasks, rejected>>

\* keys_result = await db.execute(select(ValidatorKey.key)...); return
PollKeys(p) ==
    /\ poll[p].pc = "keys"
    /\ \/ poll' = [PollsLeft EXCEPT ![p] =
                     [poll[p] EXCEPT !.pc = "done", !.code = 200,
                         !.has_keys = TRUE,
                         !.keys = SelectKeys(poll[p].request_id)]]
       \/ poll' = [PollsLeft EXCEPT ![p] =
                     [poll[p] EXCEPT !.pc = "done", !.code = 500,
                                     !.status = "none"]]
    /\ UNCHANGED <<requests, keys, nextUuid, create, tasks, rejected>>

\* ------------------------------------------------------------ the system
Init ==
    /\ requests = <<>>
    /\ keys = [rid \in RequestIds |-> <<>>]
    /\ nextUuid = 0
    /\ create = <<>>
    /\ tasks = <<>>
    /\ poll = [p \in Pollers |-> IdlePoll]
    /\ rejected = {}

WorkerStep(t) ==
    GenerateKey(t) \/ StoreKey(t) \/ UpdateLookup(t) \/ UpdateCommit(t)

HandlerStep(rid) == CreateCommit(rid) \/ CreateRefresh(rid)

Next ==
    \/ \E num \in NumValidators, fee \in FeeRecipients :
          CreateValidatorRequest(num, fee)
    \/ \E rid \in RequestIds : CreateCommit(rid)
    \/ \E rid \in RequestIds : CreateRefresh(rid)
    \/ \E t \in TaskIds : GenerateKey(t)
    \/ \E t \in TaskIds : StoreKey(t)
    \/ \E t \in TaskIds : UpdateLookup(t)
    \/ \E t \in TaskIds : UpdateCommit(t)
    \/ \E p \in Pollers, rid \in RequestIds : GetValidatorStatus(p, rid)
    \/ \E p \in Pollers : PollKeys(p)

Spec == Init /\ [][Next]_vars

\* The submissions and their tasks alone, no client polling.  The event loop
\* runs every task and every handler it holds until it ends: an awaited call
\* always returns or raises.
NextWork ==
    \/ \E num \in NumValidators, fee \in FeeRecipients :
          CreateValidatorRequest(num, fee)
    \/ \E rid \in RequestIds : CreateCommit(rid)
    \/ \E rid \in RequestIds : CreateRefresh(rid)
    \/ \E t \in TaskIds : GenerateKey(t)
    \/ \E t \in TaskIds : StoreKey(t)
    \/ \E t \in TaskIds : UpdateLookup(t)
    \/ \E t \in TaskIds : UpdateCommit(t)

FairSpec ==
    /\ Init
    /\ [][NextWork]_vars
    /\ \A t \in TaskIds : WF_vars(WorkerStep(t))
    /\ \A rid \in RequestIds : WF_vars(HandlerStep(rid))

\* The API with the bodies clients post, valid or not, and no client polling.
NextPost ==
    \/ \E num \in NumInputs, fee \in FeeInputs : PostValidators(num, fee)
    \/ \E rid \in RequestIds : CreateCommit(rid)
    \/ \E rid \in RequestIds : CreateRefresh(rid)
    \/ \E t \in TaskIds : GenerateKey(t)
    \/ \E t \in TaskIds : StoreKey(t)
    \/ \E t \in TaskIds : UpdateLookup(t)
    \/ \E t \in TaskIds : UpdateCommit(t)

PostSpec == Init /\ [][NextPost]_vars

\* ------------------------------------------------------------ properties
Accepted(rid) == rid \in DOMAIN create /\ create[rid].pc = "returned"

StatusOf(rid) == IF rid \in DOMAIN requests THEN requests[rid].status ELSE "none"

\* a generator or store call of a task of rid raised
Faulted(rid) == \E t \in TasksOf(rid) : tasks[t].fault

IsPrefix(s, t) == Len(s) <= Len(t) /\ SubSeq(t, 1, Len(s)) = s

\* C1: once a Request's stored status is successful or failed it never
\* changes again, no Request goes back to started, and no Request row
\* disappears.
C1_TerminalStatusStable ==
    [][\A rid \in DOMAIN requests :
          /\ rid \in DOMAIN requests'
          /\ requests[rid].status \in Terminal
                => requests'[rid].status = requests[rid].status
          /\ requests'[rid].status = "started"
                => requests[rid].status = "started"]_vars

\* a task has ended and left its Request in a terminal status, while another
\* task is still running
C1_Witness ==
    \E t \in DOMAIN tasks :
        /\ tasks[t].pc = "done"
        /\ StatusOf(tasks[t].request_id) \in Terminal
        /\ \E u \in DOMAIN tasks : tasks[u].pc # "done"

\* C2: a Request whose status is successful has exactly num_validators Key
\* rows, and a poll that reports successful carries exactly that many keys,
\* each the key of a row of that request.
C2_SuccessfulHasAllKeys ==
    /\ \A rid \in DOMAIN requests :
          requests[rid].status = "successful"
             => KeyCount(rid) = requests[rid].num_validators
    /\ \A p \in Pollers :
          (poll[p].pc = "done" /\ poll[p].status = "successful")
             => /\ poll[p].has_keys
                /\ Len(poll[p].keys) = requests[poll[p].request_id].num_validators
                /\ \A j \in DOMAIN poll[p].keys :
                      \E rid \in RequestIds, k \in 1..MaxNumValidators :
                         /\ k \in DOMAIN keys[rid]
                         /\ keys[rid][k].key = poll[p].keys[j]
                         /\ keys[rid][k].request_id = poll[p].request_id

\* a poll has returned successful with the keys of a request of two keys, and
\* the table also holds a row of another request
C2_Witness ==
    \E p \in Pollers :
        /\ poll[p].pc = "done"
        /\ poll[p].status = "successful"
        /\ Len(poll[p].keys) = 2
        /\ \E rid \in RequestIds :
              rid # poll[p].request_id /\ keys[rid] # <<>>

\* C3: a Request whose status is failed has between 0 and num_validators - 1
\* Key rows, and no Key row is ever deleted or changed: the table only grows
\* at its end.
C3_FailedKeepsPartialKeys ==
    /\ [](\A rid \in DOMAIN requests :
             requests[rid].status = "failed"
                => KeyCount(rid) \in 0..(requests[rid].num_validators - 1))
    /\ [][\A rid \in RequestIds : IsPrefix(keys[rid], keys'[rid])]_vars

\* a Request has failed after one of its keys was stored, and the row is
\* still there
C3_Witness ==
    \E rid \in DOMAIN requests :
        /\ requests[rid].status = "failed"
        /\ KeyCount(rid) = 1
        /\ requests[rid].num_validators = 2

\* C4: the number of Key rows of a request never exceeds its num_validators.
C4_NeverMoreThanRequested ==
    \A rid \in DOMAIN create : KeyCount(rid) <= create[rid].num_validators

\* two requests have each all their keys stored
C4_Witness ==
    /\ Cardinality(DOMAIN requests) >= 2
    /\ \A rid \in DOMAIN requests :
          KeyCount(rid) = requests[rid].num_validators

\* C5: a submit that returned has started exactly one task, bound to the id
\* and the arguments it returned, and no id ever has more than one task.
C5_OneWorkerPerRequest ==
    /\ \A rid \in DOMAIN create :
          /\ Cardinality(TasksOf(rid)) <= 1
          /\ create[rid].pc = "returned" => Cardinality(TasksOf(rid)) = 1
    /\ \A t \in DOMAIN tasks :
          /\ Accepted(tasks[t].request_id)
          /\ tasks[t].num_validators = create[tasks[t].request_id].num_validators
          /\ tasks[t].fee_recipient = create[tasks[t].request_id].fee_recipient

\* two submits have returned and their two tasks are running at once
C5_Witness ==
    \E t1, t2 \in DOMAIN tasks :
        /\ tasks[t1].request_id # tasks[t2].request_id
        /\ tasks[t1].pc # "done"
        /\ tasks[t2].pc # "done"

\* C6: when the commit of the Request row fails, the handler answers with an
\* error, no row of that id exists, no task is started for it and no Key row
\* carries it.
C6_FailedCommitStartsNothing ==
    \A rid \in DOMAIN create :
        create[rid].pc = "commit_error"
           => /\ create[rid].response = 500
              /\ rid \notin DOMAIN requests
              /\ TasksOf(rid) = {}
              /\ KeyCount(rid) = 0

\* a commit has failed, and the task of another request has stored a key
C6_Witness ==
    /\ \E rid \in DOMAIN create : create[rid].pc = "commit_error"
    /\ \E rid \in RequestIds : keys[rid] # <<>>

\* C7: every task's and every Key row's request_id names a stored Request,
\* which was in status started when the task was spawned, and no status
\* update finds its Request absent.
C7_RequestExistsFirst ==
    /\ \A rid \in RequestIds :
          \A k \in DOMAIN keys[rid] :
             keys[rid][k].request_id \in DOMAIN requests
    /\ \A t \in DOMAIN tasks :
          /\ tasks[t].request_id \in DOMAIN requests
          /\ tasks[t].dropped # "absent"
          /\ create[tasks[t].request_id].ret_status = "started"

\* a task has stored a key and applied its status update
C7_Witness ==
    \E t \in DOMAIN tasks :
        /\ tasks[t].pc = "done"
        /\ tasks[t].dropped = "no"
        /\ KeyCount(tasks[t].request_id) > 0

\* C8: when submit returns the id of a request of more than one key, fewer
\* Key rows than requested are stored for it and its status is started.
C8_ReturnsBeforeKeys ==
    \A rid \in DOMAIN create :
        (create[rid].pc = "returned" /\ create[rid].num_validators > 1)
           => /\ create[rid].ret_keys < create[rid].num_validators
              /\ create[rid].ret_status = "started"

\* a submit of two keys has returned, and its task has since stored both
C8_Witness ==
    \E rid \in DOMAIN create :
        /\ create[rid].pc = "returned"
        /\ create[rid].num_validators = 2
        /\ KeyCount(rid) = 2
        /\ StatusOf(rid) = "successful"

\* what a poll of rid reads from the store: status successful and exactly
\* num_validators keys
PollReadsAllKeys(rid) ==
    /\ StatusOf(rid) = "successful"
    /\ Len(SelectKeys(rid)) = requests[rid].num_validators

\* C9: an accepted request none of whose generator and store calls raises
\* eventually reaches successful, and from then on the store holds status
\* successful and exactly num_validators keys for a poll of it to read.
C9_NoFaultSucceeds ==
    \A rid \in RequestIds :
        Accepted(rid) ~> (Faulted(rid) \/ [](PollReadsAllKeys(rid)))

\* two requests, one of them of two keys, ran without a fault and are
\* successful
C9_Witness ==
    /\ \A rid \in RequestIds :
          /\ Accepted(rid)
          /\ ~Faulted(rid)
          /\ PollReadsAllKeys(rid)
    /\ \E rid \in RequestIds : requests[rid].num_validators = 2

\* C10 as stated: a task that has ended has left its Request in a terminal
\* status, whatever raised.
C10_EndsTerminal ==
    \A t \in DOMAIN tasks :
        tasks[t].pc = "done" => StatusOf(tasks[t].request_id) \in Terminal

\* C10 as amended: every task that starts eventually ends, and then its
\* Request is in a terminal status unless the status update itself was
\* dropped (its lookup or its commit raised, or the Request was absent).
C10_EndsTerminalUnlessDropped ==
    \A t \in TaskIds :
        (t \in DOMAIN tasks)
           ~> /\ t \in DOMAIN tasks
              /\ tasks[t].pc = "done"
              /\ \/ StatusOf(tasks[t].request_id) \in Terminal
                 \/ tasks[t].dropped # "no"

\* a task has ended after a key write raised, and its Request is failed
C10_Witness ==
    \E t \in DOMAIN tasks :
        /\ tasks[t].pc = "done"
        /\ tasks[t].fault
        /\ tasks[t].dropped = "no"
        /\ StatusOf(tasks[t].request_id) = "failed"

\* all the keys task t was asked for are stored
AllKeysStored(t) ==
    /\ t \in DOMAIN tasks
    /\ KeyCount(tasks[t].request_id) = tasks[t].num_validators

\* C11 as stated: a task that has ended with all num_validators keys stored
\* has left its Request successful, not started and not failed.
C11_AllKeysEndSuccessful ==
    \A t \in DOMAIN tasks :
        (tasks[t].pc = "done" /\ AllKeysStored(t))
           => StatusOf(tasks[t].request_id) = "successful"

\* C11 as amended: a Request with all its keys stored is never failed, and it
\* eventually is successful unless the update to successful was dropped (its
\* lookup or its commit raised), which leaves it started.
C11_AllKeysSuccessfulUnlessDropped ==
    /\ [](\A t \in DOMAIN tasks :
             AllKeysStored(t) => StatusOf(tasks[t].request_id) # "failed")
    /\ \A t \in TaskIds :
          AllKeysStored(t)
             ~> /\ t \in DOMAIN tasks
                /\ tasks[t].pc = "done"
                /\ StatusOf(tasks[t].request_id)
                      = IF tasks[t].dropped = "no" THEN "successful" ELSE "started"

\* all keys of a request of two are stored, the update to successful was
\* dropped, and the Request is still started
C11_Witness ==
    \E t \in DOMAIN tasks :
        /\ tasks[t].pc = "done"
        /\ AllKeysStored(t)
        /\ tasks[t].num_validators = 2
        /\ tasks[t].dropped = "fault"
        /\ StatusOf(tasks[t].request_id) = "started"

\* C12: once a Request's status is successful or failed, no key row of that
\* request is added or removed and the status stays, so every poll answered
\* from then on reports that stored status and, when successful, that stored
\* key list.
C12_TerminalPollsAgree ==
    /\ [][\A rid \in DOMAIN requests :
             requests[rid].status \in Terminal
                => /\ keys'[rid] = keys[rid]
                   /\ StatusOf(rid)' = requests[rid].status]_vars
    /\ [](\A p \in Pollers :
             (poll[p].pc = "done" /\ poll[p].code = 200
                                  /\ poll[p].status \in Terminal)
                => /\ poll[p].status = StatusOf(poll[p].request_id)
                   /\ poll[p].has_keys = (poll[p].status = "successful")
                   /\ poll[p].keys = IF poll[p].has_keys
                                     THEN SelectKeys(poll[p].request_id)
                                     ELSE <<>>)

\* a poll is answered successful with the two stored keys of its request
\* while the task of another request is still in its loop
C12_Witness ==
    \E p \in Pollers, t \in DOMAIN tasks :
        /\ poll[p].pc = "done" /\ poll[p].code = 200
        /\ poll[p].status = "successful"
        /\ Len(poll[p].keys) = 2
        /\ tasks[t].request_id # poll[p].request_id
        /\ tasks[t].pc \in {"gen", "store"}

\* C13: a poll of an id that has no stored Request, whatever handlers and
\* tasks are in flight, is answered 404 with no status, no keys and no
\* message whenever the lookup returns (a lookup that raises is a 500), and
\* the poll step changes no Request row and no key row.
C13_UnknownIdNotFound ==
    /\ [](\A p \in Pollers :
             (poll[p].pc # "idle" /\ poll[p].request_id \notin DOMAIN requests)
                => /\ poll[p].pc = "done"
                   /\ poll[p].code \in {404, 500}
                   /\ poll[p].status = "none"
                   /\ ~poll[p].has_keys
                   /\ poll[p].message = "none")
    /\ [][poll' # PollsLeft => UNCHANGED <<requests, keys>>]_vars

\* a poll is answered 404 for an id whose Request is added to a session but
\* not committed, while a task of another request is in its loop
C13_Witness ==
    \E p \in Pollers, t \in DOMAIN tasks :
        /\ poll[p].pc = "done" /\ poll[p].code = 404
        /\ poll[p].request_id \in DOMAIN create
        /\ create[poll[p].request_id].pc = "commit"
        /\ tasks[t].pc \in {"gen", "store"}

\* C14: a 200 poll response carries a key list exactly when the status it
\* reports is successful; a started response has no keys and no message even
\* when key rows of the request are stored; a failed response has the fixed
\* message "Error processing request", no keys and nothing else.
C14_ResponseShape ==
    \A p \in Pollers :
        (poll[p].pc = "done" /\ poll[p].code = 200)
           => /\ poll[p].status \in {"started", "successful", "failed"}
              /\ poll[p].has_keys <=> poll[p].status = "successful"
              /\ poll[p].status = "successful" => poll[p].message = "none"
              /\ poll[p].status = "started"
                    => poll[p].keys = <<>> /\ poll[p].message = "none"
              /\ poll[p].status = "failed"
                    => /\ poll[p].keys = <<>>
                       /\ poll[p].message = "Error processing request"

\* a poll is answered started, without keys, for a request of two that has
\* one key row stored
C14_Witness ==
    \E p \in Pollers :
        /\ poll[p].pc = "done" /\ poll[p].code = 200
        /\ poll[p].status = "started" /\ ~poll[p].has_keys
        /\ KeyCount(poll[p].request_id) = 1
        /\ requests[poll[p].request_id].num_validators = 2

\* C15: each submit gets an id no earlier submit got, also with the same
\* arguments; every key row is stored under the request_id of the task that
\* wrote it; and a step of the task of request A leaves the rows and the keys
\* of every other request as they were, and of A changes only the status and
\* appends only rows of A.
C15_WorkersKeepApart ==
    /\ [][nextUuid' # nextUuid
            => nextUuid' \notin DOMAIN create /\ nextUuid' \in DOMAIN create']_vars
    /\ [](\A rid \in RequestIds : \A j \in DOMAIN keys[rid] :
             /\ keys[rid][j].request_id = rid
             /\ \E t \in TasksOf(rid) : keys[rid][j].key[1] = t)
    /\ [][\A t \in DOMAIN tasks :
             tasks'[t] # tasks[t]
                => LET a == tasks[t].request_id IN
                   /\ \A rid \in RequestIds \ {a} : keys'[rid] = keys[rid]
                   /\ DOMAIN requests' = DOMAIN requests
                   /\ \A rid \in DOMAIN requests \ {a} :
                         requests'[rid] = requests[rid]
                   /\ a \in DOMAIN requests
                         => requests' = [requests EXCEPT
                                           ![a].status = requests'[a].status]
                   /\ \/ keys'[a] = keys[a]
                      \/ /\ Len(keys'[a]) = Len(keys[a]) + 1
                         /\ SubSeq(keys'[a], 1, Len(keys[a])) = keys[a]
                         /\ keys'[a][Len(keys'[a])].request_id = a]_vars

\* two requests submitted with the same arguments have different ids; one is
\* successful with its key stored and the other has a key stored and is
\* still started
C15_Witness ==
    \E a, b \in DOMAIN requests :
        /\ a # b
        /\ requests[a].num_validators = requests[b].num_validators
        /\ requests[a].fee_recipient = requests[b].fee_recipient
        /\ requests[a].status = "successful" /\ KeyCount(a) >= 1
        /\ requests[b].status = "started" /\ KeyCount(b) >= 1

\* an Ethereum address as the validator's docstring and error message have
\* it: "0x" followed by 40 hex characters, and nothing else
IsEthereumAddress(v) ==
    /\ Len(v) = HexLength + 2
    /\ v[1] = "0" /\ v[2] = "x"
    /\ \A i \in 3..(HexLength + 2) : v[i] \in HexDigits

\* C16 as stated: a posted body whose num_validators is zero or negative or
\* whose fee_recipient is no valid address is rejected, so every handler that
\* drew an id, every stored Request and every task has a positive
\* num_validators and a fee_recipient that is a valid address.
C16_InvalidBodyRejected ==
    /\ \A rid \in DOMAIN create :
          /\ create[rid].num_validators > 0
          /\ IsEthereumAddress(create[rid].fee_recipient)
    /\ \A rid \in DOMAIN requests :
          /\ requests[rid].num_validators > 0
          /\ IsEthereumAddress(requests[rid].fee_recipient)
    /\ \A t \in DOMAIN tasks :
          /\ tasks[t].num_validators > 0
          /\ IsEthereumAddress(tasks[t].fee_recipient)

\* C17 as stated: a task that has ended after a fault of the generator or of
\* a key commit on item i + 1 has left its Request failed with exactly i key
\* rows.
C17_FaultEndsFailed ==
    \A t \in DOMAIN tasks :
        (tasks[t].pc = "done" /\ tasks[t].status = "failed")
           => /\ StatusOf(tasks[t].request_id) = "failed"
              /\ KeyCount(tasks[t].request_id) = tasks[t].i

\* C17 as amended: the first fault of the generator or of a key commit, on
\* item i + 1, sends the task to update_request_status(failed) and the loop
\* is over: exactly i key rows are stored from then on, the item is not
\* tried again and no later item is generated or stored; the task ends with
\* the Request failed unless that update was dropped, which leaves it
\* started.
C17_FaultStopsTask ==
    /\ [](\A t \in DOMAIN tasks :
             /\ tasks[t].fault
                   => tasks[t].pc \in {"upd_lookup", "upd_commit", "done"}
             /\ tasks[t].status = "failed"
                   => /\ tasks[t].fault
                      /\ tasks[t].i < tasks[t].num_validators
                      /\ KeyCount(tasks[t].request_id) = tasks[t].i
                      /\ tasks[t].pc = "done"
                            => StatusOf(tasks[t].request_id)
                                  = IF tasks[t].dropped = "no"
                                    THEN "failed" ELSE "started")
    /\ [][\A t \in DOMAIN tasks :
             tasks[t].status = "failed"
                => /\ keys'[tasks[t].request_id] = keys[tasks[t].request_id]
                   /\ tasks'[t].i = tasks[t].i
                   /\ tasks'[t].key = NoKey
                   /\ tasks'[t].status = "failed"]_vars

\* the second item of a request of two faulted: the task has ended, one key
\* row is stored and the Request is failed
C17_Witness ==
    \E t \in DOMAIN tasks :
        /\ tasks[t].pc = "done" /\ tasks[t].status = "failed"
        /\ tasks[t].dropped = "no"
        /\ tasks[t].i = 1 /\ tasks[t].num_validators = 2
        /\ KeyCount(tasks[t].request_id) = 1
        /\ StatusOf(tasks[t].request_id) = "failed"

\* C18: a task works on one item at a time: while it generates or stores
\* item i + 1 the rows of items 1..i are all stored, the only key not yet
\* stored is the one it holds between generate_key and commit, and the rows
\* of its request are in the order the keys were generated.
C18_OneItemAtATime ==
    \A t \in DOMAIN tasks :
        LET rid == tasks[t].request_id IN
        /\ \A j \in DOMAIN keys[rid] : keys[rid][j].key = TokenHex(t, j - 1)
        /\ tasks[t].pc \in {"gen", "store"} => KeyCount(rid) = tasks[t].i
        /\ KeyCount(rid) <= tasks[t].i
        /\ tasks[t].key = IF tasks[t].pc = "store"
                          THEN TokenHex(t, tasks[t].i) ELSE NoKey

\* the second key of a task is generated and not yet stored, and the row of
\* its first key is stored
C18_Witness ==
    \E t \in DOMAIN tasks :
        /\ tasks[t].pc = "store" /\ tasks[t].i = 1
        /\ tasks[t].key = TokenHex(t, 1)
        /\ SelectKeys(tasks[t].request_id) = <<TokenHex(t, 0)>>

\* C19: the step at which an update_request_status call is dropped (no
\* Request row found, or its lookup or its commit raised) changes no Request
\* row and no key row and ends the task; the task never runs again, so the
\* update is not tried again, and the stored status stays what it was before
\* the call, started.
C19_DroppedUpdateChangesNothing ==
    /\ [][\A t \in DOMAIN tasks :
             /\ (tasks[t].dropped = "no" /\ tasks'[t].dropped # "no")
                   => /\ UNCHANGED <<requests, keys>>
                      /\ tasks[t].pc \in {"upd_lookup", "upd_commit"}
                      /\ tasks'[t].pc = "done"
             /\ tasks[t].pc = "done" => tasks'[t] = tasks[t]]_vars
    /\ [](\A t \in DOMAIN tasks :
             tasks[t].dropped # "no"
                => /\ tasks[t].pc = "done"
                   /\ StatusOf(tasks[t].request_id) = "started")

\* the commit of the update to failed raised after one key of two was
\* stored: the task has ended, the row is stored and the Request is started
C19_Witness ==
    \E t \in DOMAIN tasks :
        /\ tasks[t].pc = "done" /\ tasks[t].dropped = "fault"
        /\ tasks[t].status = "failed"
        /\ KeyCount(tasks[t].request_id) = 1
        /\ requests[tasks[t].request_id].status = "started"

\* C20 as stated: once the create_validator_request handler of a stored
\* Request has ended, by returning or by raising, a task was spawned for
\* that Request.
C20_StoredRequestHasWorker ==
    \A rid \in DOMAIN requests :
        (rid \in DOMAIN create
            /\ create[rid].pc \in {"returned", "commit_error", "refresh_error"})
           => TasksOf(rid) # {}

====
